---- MODULE Spec2Model ----
(***************************************************************************)
(* Gem hunter (src/main.py): a square grid of cells, each Unknown ('_'),   *)
(* Trap ('T'), Gem ('G') or a numeric clue, solved by three strategies:    *)
(* solve_with_pysat, solve_with_brute_force and solve_with_backtracking.   *)
(*                                                                         *)
(* Python lists are objects with identity, so the model keeps a heap: an   *)
(* outer list is an object holding the ids of its row objects, a row is an *)
(* object holding cell values.  Indices are 0-based as in the source.      *)
(* One behaviour is one solve call on one parsed grid.                     *)
(*                                                                         *)
(* In the actions, \E x \in {e} : ... names the value of e, computed once. *)
(***************************************************************************)
EXTENDS Integers, Sequences, FiniteSets, TLC

---------------------------------------------------------------------------
(* Bounds of the model *)

\* largest grid side N
MaxN == 3
\* largest clue value in an input grid
MaxClue == 4
\* largest number of cells of an input grid that are not a fixed Gem
MaxMarked == 3
\* largest grid side in the specification with fairness
LiveMaxN == 2

---------------------------------------------------------------------------
(* Cell values.  parse_input_file yields '_', 'T', 'G' or an int; the      *)
(* three strings are encoded as negative integers, a clue n as n itself,   *)
(* so that isinstance(x, int) is x >= 0.                                   *)

Unknown == -1
Trap == -2
Gem == -3
\* Python's None, as a reference
None == 0

IsInt(x) == x >= 0

Max(a, b) == IF a >= b THEN a ELSE b
Min(a, b) == IF a <= b THEN a ELSE b

\* len() of a list object (a function over 0..n-1)
Length(obj) == Cardinality(DOMAIN obj)

---------------------------------------------------------------------------
(* Heap *)

\* the nested-list value an outer list object denotes
Load(h, ref) == [i \in DOMAIN h[ref] |-> h[h[ref][i]]]

\* objects reachable from an outer list
Reach(h, ref) == IF ref = None THEN {} ELSE {ref} \cup {h[ref][i] : i \in DOMAIN h[ref]}

\* the heap once every object unreachable from the roots is freed
Collect(h, roots) ==
  LET live == UNION {Reach(h, r) : r \in roots}
  IN  [id \in live |-> h[id]]

NextId(h) == IF DOMAIN h = {} THEN 1 ELSE (CHOOSE m \in DOMAIN h : \A k \in DOMAIN h : k <= m) + 1

\* a copy that is the list itself: candidate = grid
CopyGrid_Alias(h, ref) == [heap |-> h, ref |-> ref]

\* [row[:] for row in grid]: a new outer list of new rows
CopyGrid(h, ref) ==
  LET n    == Length(h[ref])
      base == NextId(h)
      new  == [id \in (base .. base + n) |->
                 IF id = base THEN [i \in 0 .. n-1 |-> base + 1 + i]
                 ELSE h[h[ref][id - base - 1]]]
  IN  [heap |-> [id \in DOMAIN h \cup DOMAIN new |-> IF id \in DOMAIN h THEN h[id] ELSE new[id]],
       ref  |-> base]

\* candidate[i][j] = val
Store(h, ref, i, j, val) == [h EXCEPT ![h[ref][i]][j] = val]

---------------------------------------------------------------------------
(* Utility functions *)

get_neighbors(r, c, N) ==
  {p \in {r-1, r, r+1} \X {c-1, c, c+1} :
     /\ 0 <= p[1] /\ p[1] < N
     /\ 0 <= p[2] /\ p[2] < N
     /\ ~(p[1] = r /\ p[2] = c)}

is_valid_assignment(g) ==
  LET N == Length(g)
  IN  \A i \in 0 .. N-1 : \A j \in 0 .. N-1 :
        IsInt(g[i][j]) =>
          Cardinality({p \in get_neighbors(i, j, N) : g[p[1]][p[2]] = Trap}) = g[i][j]

\* the cells in row-major order
RowMajor(N) == [k \in 1 .. N*N |-> <<(k-1) \div N, (k-1) % N>>]

\* a list of every cell that is no clue
UnknownsOf_NotClue(g) ==
  LET NotClue(p) == ~IsInt(g[p[1]][p[2]])
  IN  SelectSeq(RowMajor(Length(g)), NotClue)

\* [(i, j) for i in range(N) for j in range(N) if grid[i][j] == '_']
UnknownsOf(g) ==
  LET IsUnknown(p) == g[p[1]][p[2]] = Unknown
  IN  SelectSeq(RowMajor(Length(g)), IsUnknown)

\* Python truthiness of a solve result: None and the empty list are false
Truthy(h, ref) == ref # None /\ Length(h[ref]) > 0

\* statistics whose filled_count leaves the Gem cells out
StatsOf_TrapsOnly(g) ==
  LET N == Length(g)
      cells == (0 .. N-1) \X (0 .. N-1)
      trap_count == Cardinality({p \in cells : g[p[1]][p[2]] = Trap})
      goal_count == Cardinality({p \in cells : g[p[1]][p[2]] = Gem})
  IN  [trap_count |-> trap_count, goal_count |-> goal_count,
       filled_count |-> trap_count]

\* the statistics of a solved grid
StatsOf(g) ==
  LET N == Length(g)
      cells == (0 .. N-1) \X (0 .. N-1)
      trap_count == Cardinality({p \in cells : g[p[1]][p[2]] = Trap})
      goal_count == Cardinality({p \in cells : g[p[1]][p[2]] = Gem})
  IN  [trap_count |-> trap_count, goal_count |-> goal_count,
       filled_count |-> trap_count + goal_count]

\* the empty stats dictionary of a failed solve
NoStats == [trap_count |-> -1, goal_count |-> -1, filled_count |-> -1]

---------------------------------------------------------------------------
(* State *)

VARIABLES
  heap,        \* object id -> list object
  grid,        \* the caller's grid (reference)
  input,       \* history: the value of the caller's grid when solve was called
  pc,          \* position in the solve call
  algo,        \* the strategy main chose
  unknowns,    \* the list of Unknown cells
  candidate,   \* reference of the working copy, or None
  assignment,  \* brute force: the current element of itertools.product
  stack,       \* backtracking: the frames of backtrack, innermost last
  result,      \* backtracking: what backtrack(0, candidate) returned
  cnf,         \* pysat: the constraints generate_cnf_clauses produced
  model_set,   \* pysat: the cell variables the solver's model makes true
  work,        \* history: candidates validated / backtrack calls made so far
  solved,      \* first component of the returned tuple
  stats        \* second component of the returned tuple

vars == <<heap, grid, input, pc, algo, unknowns, candidate, assignment, stack, result,
          cnf, model_set, work, solved, stats>>

\* no constraints generated yet
NoCnf == [units |-> {}, cards |-> {}]

---------------------------------------------------------------------------
(* Input grids *)

Cells(n) == (0 .. n-1) \X (0 .. n-1)
MarkedValues == {Unknown, Trap} \cup (0 .. MaxClue)

GridValue(n, S, f) ==
  [i \in 0 .. n-1 |-> [j \in 0 .. n-1 |-> IF <<i, j>> \in S THEN f[<<i, j>>] ELSE Gem]]

\* the heap after parse_input_file built the value g: outer list 1, rows 2..n+1
HeapOf(g) ==
  LET n == Length(g)
  IN  [id \in 1 .. n+1 |-> IF id = 1 THEN [i \in 0 .. n-1 |-> 2 + i] ELSE g[id - 2]]

Init ==
  \E n \in 0 .. MaxN :
    \E S \in SUBSET Cells(n) :
      /\ Cardinality(S) <= MaxMarked
      /\ \E f \in [S -> MarkedValues] :
           /\ input = GridValue(n, S, f)
           /\ heap = HeapOf(GridValue(n, S, f))
  /\ grid = 1
  /\ pc = "main"
  /\ algo = "none"
  /\ unknowns = <<>>
  /\ candidate = None
  /\ assignment = <<>>
  /\ stack = <<>>
  /\ result = None
  /\ cnf = NoCnf
  /\ model_set = {}
  /\ work = 0
  /\ solved = None
  /\ stats = NoStats

---------------------------------------------------------------------------
(* Brute force *)

\* whether itertools.product([True, False], repeat=n) has an element after a
HasNext(a) == \E k \in 1 .. Len(a) : a[k]
\* an iteration that yields the same element again
NextAssignment_Stuck(a) == a

NextAssignment(a) ==
  LET k == CHOOSE m \in 1 .. Len(a) : a[m] /\ \A q \in (m+1) .. Len(a) : ~a[q]
  IN  [q \in 1 .. Len(a) |-> IF q < k THEN a[q] ELSE IF q = k THEN FALSE ELSE TRUE]

\* line 223: the call starts, the first assignment is all True
BFStart ==
  /\ pc = "main"
  /\ unknowns' = UnknownsOf(Load(heap, grid))
  /\ assignment' = [k \in 1 .. Len(UnknownsOf(Load(heap, grid))) |-> TRUE]
  /\ pc' = "bf_build"
  /\ algo' = "bruteforce"
  /\ UNCHANGED <<heap, grid, input, candidate, stack, result, cnf, model_set, work,
                 solved, stats>>

\* the heap after the assignment a is written into the copy c: each cell
\* us[k] receives the label of a[k], the last write to a cell standing
Fill(h, c, us, a) ==
  LET rowOf(id) == CHOOSE i \in DOMAIN h[c] : h[c][i] = id
      hits(p) == {k \in 1 .. Len(us) : us[k] = p}
      last(p) == CHOOSE k \in hits(p) : \A q \in hits(p) : q <= k
  IN  [id \in DOMAIN h |->
         IF id \in {h[c][i] : i \in DOMAIN h[c]}
         THEN [j \in DOMAIN h[id] |->
                 IF hits(<<rowOf(id), j>>) # {}
                 THEN (IF a[last(<<rowOf(id), j>>)] THEN Trap ELSE Gem)
                 ELSE h[id][j]]
         ELSE h[id]]

\* lines 226-228
BFBuild ==
  /\ pc = "bf_build"
  /\ \E cp \in {CopyGrid(Collect(heap, {grid}), grid)} :
       /\ heap' = Fill(cp.heap, cp.ref, unknowns, assignment)
       /\ candidate' = cp.ref
  /\ pc' = "bf_check"
  /\ work' = work + 1
  /\ UNCHANGED <<grid, input, algo, unknowns, assignment, stack, result, cnf, model_set,
                 solved, stats>>

\* lines 229-240
BFCheck ==
  /\ pc = "bf_check"
  /\ IF \E g \in {Load(heap, candidate)} : is_valid_assignment(g)
     THEN /\ solved' = candidate
          /\ \E g \in {Load(heap, candidate)} : stats' = StatsOf(g)
          /\ pc' = "done"
          /\ UNCHANGED assignment
     ELSE IF HasNext(assignment)
          THEN /\ assignment' = NextAssignment(assignment)
               /\ pc' = "bf_build"
               /\ UNCHANGED <<solved, stats>>
          ELSE /\ solved' = None
               /\ stats' = NoStats
               /\ pc' = "done"
               /\ UNCHANGED assignment
  /\ UNCHANGED <<heap, grid, input, algo, unknowns, candidate, stack, result, cnf, model_set,
                 work>>

---------------------------------------------------------------------------
(* Backtracking *)

\* a check that also rejects a clue already met while neighbours are Unknown
is_partial_consistent_Eager(g, r, c) ==
  LET N == Length(g)
  IN  \A i \in Max(0, r-1) .. Min(N, r+2) - 1 :
        \A j \in Max(0, c-1) .. Min(N, c+2) - 1 :
          IsInt(g[i][j]) =>
            LET expected == g[i][j]
                neighbors == get_neighbors(i, j, N)
                count == Cardinality({p \in neighbors : g[p[1]][p[2]] = Trap})
                all_assigned == \A p \in neighbors : g[p[1]][p[2]] # Unknown
            IN  /\ ~(count >= expected /\ ~all_assigned)
                /\ ~(all_assigned /\ count # expected)

\* a check that only rejects an exceeded clue
is_partial_consistent_NoExact(g, r, c) ==
  LET N == Length(g)
  IN  \A i \in Max(0, r-1) .. Min(N, r+2) - 1 :
        \A j \in Max(0, c-1) .. Min(N, c+2) - 1 :
          IsInt(g[i][j]) =>
            LET expected == g[i][j]
                neighbors == get_neighbors(i, j, N)
                count == Cardinality({p \in neighbors : g[p[1]][p[2]] = Trap})
            IN  ~(count > expected)

is_partial_consistent(g, r, c) ==
  LET N == Length(g)
  IN  \A i \in Max(0, r-1) .. Min(N, r+2) - 1 :
        \A j \in Max(0, c-1) .. Min(N, c+2) - 1 :
          IsInt(g[i][j]) =>
            LET expected == g[i][j]
                neighbors == get_neighbors(i, j, N)
                count == Cardinality({p \in neighbors : g[p[1]][p[2]] = Trap})
                all_assigned == \A p \in neighbors : g[p[1]][p[2]] # Unknown
            IN  /\ ~(count > expected)
                /\ ~(all_assigned /\ count # expected)

\* the labels tried Gem first
Labels_GemFirst == <<Gem, Trap>>

\* for val in ['T', 'G']
Labels == <<Trap, Gem>>

\* a frame of backtrack(index, candidate); entry is history: the value of
\* candidate when the call was entered
Frame(index, entry) ==
  [index |-> index, pc |-> "entry", val |-> 1, ret |-> None, entry |-> entry]

Top == stack[Len(stack)]
SetTop(f) == [stack EXCEPT ![Len(stack)] = f]

\* lines 280-282, 302-303
BTStart ==
  /\ pc = "main"
  /\ unknowns' = UnknownsOf(Load(heap, grid))
  /\ \E cp \in {CopyGrid(heap, grid)} :
       /\ heap' = cp.heap
       /\ candidate' = cp.ref
       /\ stack' = <<Frame(0, Load(cp.heap, cp.ref))>>
  /\ work' = 1
  /\ pc' = "bt"
  /\ algo' = "backtracking"
  /\ UNCHANGED <<grid, input, assignment, result, cnf, model_set, solved, stats>>

\* lines 285-291
BTEntry ==
  /\ pc = "bt" /\ stack # <<>> /\ Top.pc = "entry"
  /\ IF Top.index = Len(unknowns)
     THEN stack' = SetTop([Top EXCEPT !.pc = "return",
                                      !.ret = IF \E g \in {Load(heap, candidate)} :
                                                   is_valid_assignment(g)
                                              THEN candidate ELSE None])
     ELSE stack' = SetTop([Top EXCEPT !.pc = "assign", !.val = 1])
  /\ UNCHANGED <<heap, grid, input, algo, pc, unknowns, candidate, assignment, result, cnf,
                 model_set, work, solved, stats>>

\* the cell a frame works on: unknowns[index]
CellOf(f) == unknowns[f.index + 1]

\* line 293
BTAssign ==
  /\ pc = "bt" /\ stack # <<>> /\ Top.pc = "assign"
  /\ heap' = Store(heap, candidate, CellOf(Top)[1], CellOf(Top)[2], Labels[Top.val])
  /\ stack' = SetTop([Top EXCEPT !.pc = "check"])
  /\ UNCHANGED <<grid, input, algo, pc, unknowns, candidate, assignment, result, cnf,
                 model_set, work, solved, stats>>

\* lines 295-296: the local check, then the recursive call or the revert
BTCheck ==
  /\ pc = "bt" /\ stack # <<>> /\ Top.pc = "check"
  /\ IF \E g \in {Load(heap, candidate)} :
          is_partial_consistent(g, CellOf(Top)[1], CellOf(Top)[2])
     THEN /\ stack' = Append(SetTop([Top EXCEPT !.pc = "wait"]),
                             Frame(Top.index + 1, Load(heap, candidate)))
          /\ work' = work + 1
     ELSE /\ stack' = SetTop([Top EXCEPT !.pc = "revert"])
          /\ UNCHANGED work
  /\ UNCHANGED <<heap, grid, input, algo, pc, unknowns, candidate, assignment, result, cnf,
                 model_set, solved, stats>>

\* a revert that restores the cell only before returning
BTRevert_NoRestore ==
  /\ pc = "bt" /\ stack # <<>> /\ Top.pc = "revert"
  /\ IF Top.val < Len(Labels)
     THEN /\ stack' = SetTop([Top EXCEPT !.pc = "assign", !.val = Top.val + 1])
          /\ UNCHANGED heap
     ELSE /\ stack' = SetTop([Top EXCEPT !.pc = "return", !.ret = None])
          /\ heap' = Store(heap, candidate, CellOf(Top)[1], CellOf(Top)[2], Unknown)
  /\ UNCHANGED <<grid, input, algo, pc, unknowns, candidate, assignment, result, cnf,
                 model_set, work, solved, stats>>

\* line 299, then the next label or line 300
BTRevert ==
  /\ pc = "bt" /\ stack # <<>> /\ Top.pc = "revert"
  /\ heap' = Store(heap, candidate, CellOf(Top)[1], CellOf(Top)[2], Unknown)
  /\ IF Top.val < Len(Labels)
     THEN stack' = SetTop([Top EXCEPT !.pc = "assign", !.val = Top.val + 1])
     ELSE stack' = SetTop([Top EXCEPT !.pc = "return", !.ret = None])
  /\ UNCHANGED <<grid, input, algo, pc, unknowns, candidate, assignment, result, cnf,
                 model_set, work, solved, stats>>

\* a return of backtrack, received at lines 296-298 or at line 303
BTReturn ==
  /\ pc = "bt" /\ stack # <<>> /\ Top.pc = "return"
  /\ LET r    == Top.ret
         rest == SubSeq(stack, 1, Len(stack) - 1)
     IN  IF rest = <<>>
         THEN /\ stack' = rest
              /\ result' = r
              /\ pc' = "bt_result"
         ELSE /\ stack' = [rest EXCEPT ![Len(rest)] =
                             IF Truthy(heap, r)
                             THEN [rest[Len(rest)] EXCEPT !.pc = "return", !.ret = r]
                             ELSE [rest[Len(rest)] EXCEPT !.pc = "revert"]]
              /\ UNCHANGED <<result, pc>>
  /\ UNCHANGED <<heap, grid, input, algo, unknowns, candidate, assignment, cnf, model_set,
                 work, solved, stats>>

\* lines 304-315
BTFinish ==
  /\ pc = "bt_result"
  /\ IF Truthy(heap, result)
     THEN /\ solved' = result
          /\ \E g \in {Load(heap, result)} : stats' = StatsOf(g)
     ELSE /\ solved' = None
          /\ stats' = NoStats
  /\ pc' = "done"
  /\ UNCHANGED <<heap, grid, input, algo, unknowns, candidate, assignment, stack, result, cnf,
                 model_set, work>>

---------------------------------------------------------------------------
(* PySAT.  The variable of cell (i, j) is the cell itself.  A cardinality  *)
(* constraint stands for the clauses CardEnc.atmost and CardEnc.atleast    *)
(* emit for it: exactly bound of lits are true.                            *)

generate_cnf_clauses(g) ==
  LET N == Length(g)
      cells == (0 .. N-1) \X (0 .. N-1)
  IN  [units |-> {<<p, TRUE>> : p \in {q \in cells : g[q[1]][q[2]] = Trap}}
                 \cup {<<p, FALSE>> : p \in {q \in cells : g[q[1]][q[2]] = Gem}},
       cards |-> {[cell |-> p, lits |-> get_neighbors(p[1], p[2], N), bound |-> g[p[1]][p[2]]] :
                    p \in {q \in cells : IsInt(g[q[1]][q[2]])}}]

\* the cell variables that occur in a clause
VarsOf(f) == {u[1] : u \in f.units} \cup UNION {k.lits : k \in f.cards}

\* the solver's models, as the set of cell variables each makes true
Models(f) ==
  {m \in SUBSET VarsOf(f) :
     /\ \A u \in f.units : (u[1] \in m) = u[2]
     /\ \A k \in f.cards : Cardinality(k.lits \cap m) = k.bound}

\* lines 158-162
SATEncode ==
  /\ pc = "main"
  /\ cnf' = generate_cnf_clauses(Load(heap, grid))
  /\ pc' = "sat_solve"
  /\ algo' = "pysat"
  /\ UNCHANGED <<heap, grid, input, unknowns, candidate, assignment, stack, result,
                 model_set, work, solved, stats>>

\* lines 164-169
SATSolve ==
  /\ pc = "sat_solve"
  /\ IF Models(cnf) = {}
     THEN /\ solved' = None
          /\ stats' = NoStats
          /\ pc' = "done"
          /\ UNCHANGED model_set
     ELSE /\ \E m \in Models(cnf) : model_set' = m
          /\ pc' = "sat_extract"
          /\ UNCHANGED <<solved, stats>>
  /\ UNCHANGED <<heap, grid, input, algo, unknowns, candidate, assignment, stack, result, cnf,
                 work>>

\* the heap after every Unknown cell of the copy c is labelled from the model
Extract(h, c, m) ==
  LET rowOf(id) == CHOOSE i \in DOMAIN h[c] : h[c][i] = id
  IN  [id \in DOMAIN h |->
         IF id \in {h[c][i] : i \in DOMAIN h[c]}
         THEN [j \in DOMAIN h[id] |->
                 IF h[id][j] = Unknown
                 THEN (IF <<rowOf(id), j>> \in m THEN Trap ELSE Gem)
                 ELSE h[id][j]]
         ELSE h[id]]

\* lines 170-183
SATExtract ==
  /\ pc = "sat_extract"
  /\ \E cp \in {CopyGrid(heap, grid)} :
       /\ heap' = Extract(cp.heap, cp.ref, model_set)
       /\ candidate' = cp.ref
  /\ pc' = "sat_stats"
  /\ UNCHANGED <<grid, input, algo, unknowns, assignment, stack, result, cnf, model_set, work,
                 solved, stats>>

\* lines 188-199: filled_count is counted cell by cell
PysatStats(g) ==
  LET N == Length(g)
      cells == (0 .. N-1) \X (0 .. N-1)
  IN  [trap_count |-> Cardinality({p \in cells : g[p[1]][p[2]] = Trap}),
       goal_count |-> Cardinality({p \in cells : g[p[1]][p[2]] # Trap /\ g[p[1]][p[2]] = Gem}),
       filled_count |-> Cardinality({p \in cells : g[p[1]][p[2]] = Trap \/ g[p[1]][p[2]] = Gem})]

\* lines 188-208
SATStats ==
  /\ pc = "sat_stats"
  /\ solved' = candidate
  /\ \E g \in {Load(heap, candidate)} : stats' = PysatStats(g)
  /\ pc' = "done"
  /\ UNCHANGED <<heap, grid, input, algo, unknowns, candidate, assignment, stack, result, cnf,
                 model_set, work>>

Next ==
  \/ BFStart \/ BFBuild \/ BFCheck
  \/ BTStart \/ BTEntry \/ BTAssign \/ BTCheck \/ BTRevert \/ BTReturn \/ BTFinish
  \/ SATEncode \/ SATSolve \/ SATExtract \/ SATStats

Spec == Init /\ [][Next]_vars

\* The solve call runs synchronously in the one thread of main: a call in
\* progress always takes its next step.  The termination property is checked
\* on the grids of side at most LiveMaxN.
LiveInit == Init /\ Length(input) <= LiveMaxN
LiveSpec == LiveInit /\ [][Next]_vars /\ WF_vars(Next)

---------------------------------------------------------------------------
(* Notions the properties are stated in *)

N0 == Length(input)
InputCells == (0 .. N0 - 1) \X (0 .. N0 - 1)
At(g, p) == g[p[1]][p[2]]

\* the cells at king-move distance 1 of p, inside a grid of side n
Adjacent(p, n) ==
  {q \in (0 .. n-1) \X (0 .. n-1) :
     q # p /\ q[1] - p[1] \in {-1, 0, 1} /\ q[2] - p[2] \in {-1, 0, 1}}

Traps(g, nb) == Cardinality({q \in nb : At(g, q) = Trap})

\* every clue of g counts exactly its Trap neighbours
Valid(g) ==
  \A p \in (0 .. Length(g) - 1) \X (0 .. Length(g) - 1) :
    At(g, p) >= 0 => Traps(g, Adjacent(p, Length(g))) = At(g, p)

\* the Unknown cells of g
Open(g) == {p \in (0 .. Length(g) - 1) \X (0 .. Length(g) - 1) : At(g, p) = Unknown}

\* g with the cells of T labelled Trap and its other Unknown cells labelled Gem
Complete(g, T) ==
  [i \in DOMAIN g |-> [j \in DOMAIN g[i] |->
     IF g[i][j] # Unknown THEN g[i][j] ELSE IF <<i, j>> \in T THEN Trap ELSE Gem]]

\* the valid completions of g, each as its set of Trap-labelled cells
Solutions(g) == {T \in SUBSET Open(g) : Valid(Complete(g, T))}

\* row-major position of a cell
Pos(p, n) == p[1] * n + p[2]

\* T comes before S in the order of the product: at the first Unknown cell
\* (row-major) where they differ, T has Trap
Before(T, S, n) ==
  \E p \in T \ S : \A q \in (T \ S) \cup (S \ T) : Pos(p, n) <= Pos(q, n)

FirstSolution(g) ==
  CHOOSE T \in Solutions(g) : \A S \in Solutions(g) : S = T \/ Before(T, S, Length(g))

Returned == pc = "done"
Succeeded == pc = "done" /\ solved # None
---------------------------------------------------------------------------
(* Properties *)

\* C1: whenever a strategy returns a non-null solved grid, every clue cell of
\* that grid has exactly n Trap cells among its in-bounds neighbours.
C1_ValidityRoundTrip ==
  Succeeded => Valid(Load(heap, solved))

\* C2: brute force and backtracking return None if and only if no labelling
\* of the Unknown cells is valid.
C2_NoneIffUnsolvable ==
  (Returned /\ algo \in {"bruteforce", "backtracking"}) =>
    ((solved = None) <=> (Solutions(input) = {}))

\* C3: the caller's grid keeps its value in every state of every solve call,
\* the working copy shares no list object with it, and the returned grid is
\* another object than the input.
C3_InputUntouched ==
  /\ Load(heap, grid) = input
  /\ candidate # None => Reach(heap, candidate) \cap Reach(heap, grid) = {}
  /\ solved # None => Reach(heap, solved) \cap Reach(heap, grid) = {}

C3_Witness ==
  /\ Succeeded
  /\ Open(input) # {}
  /\ \E p \in InputCells : At(input, p) >= 0

\* C4: in the working copy and in the returned grid, every cell that was a
\* clue, a Trap or a Gem in the input holds its input value.
C4_OnlyUnknownWritten ==
  /\ candidate # None =>
       \A p \in InputCells : At(input, p) # Unknown => At(Load(heap, candidate), p) = At(input, p)
  /\ solved # None =>
       \A p \in InputCells : At(input, p) # Unknown => At(Load(heap, solved), p) = At(input, p)

C4_Witness ==
  /\ Succeeded
  /\ Open(input) # {}
  /\ \E p \in InputCells : At(input, p) = Trap
  /\ \E p \in InputCells : At(input, p) >= 0

\* C5: a returned solved grid has no Unknown cell, and the returned stats
\* count its Trap and Gem cells with filled_count = trap_count + goal_count
\* = N*N minus the number of clue cells.
C5_SolvedAndCounted ==
  Succeeded =>
    LET g == Load(heap, solved)
        clues == {p \in InputCells : At(g, p) >= 0}
    IN  /\ \A p \in InputCells : At(g, p) \in {Trap, Gem} \/ At(g, p) >= 0
        /\ stats.trap_count = Cardinality({p \in InputCells : At(g, p) = Trap})
        /\ stats.goal_count = Cardinality({p \in InputCells : At(g, p) = Gem})
        /\ stats.filled_count = stats.trap_count + stats.goal_count
        /\ stats.filled_count = N0 * N0 - Cardinality(clues)

C5_Witness ==
  /\ Succeeded
  /\ stats.trap_count > 0 /\ stats.goal_count > 0
  /\ Cardinality(Open(input)) >= 2
  /\ \E p \in InputCells : At(input, p) >= 0

\* the frame on top of the stack is at position l of backtrack
AtFrame(l) == pc = "bt" /\ stack # <<>> /\ Top.pc = l

\* C6: at every entry of backtrack(index, candidate) the cells
\* unknowns[0..index-1] hold Trap or Gem and the cells unknowns[index..] hold
\* Unknown; a cell holds Unknown when a label is about to be written to it;
\* and when backtrack returns failure the candidate equals its value at entry.
C6_AssignThenRevert ==
  LET g == Load(heap, candidate)
  IN  /\ AtFrame("entry") =>
           \A k \in 1 .. Len(unknowns) :
             IF k <= Top.index THEN At(g, unknowns[k]) \in {Trap, Gem}
             ELSE At(g, unknowns[k]) = Unknown
      /\ AtFrame("assign") => At(g, CellOf(Top)) = Unknown
      /\ (AtFrame("return") /\ Top.ret = None) => g = Top.entry

C6_Witness ==
  /\ AtFrame("return") /\ Top.ret = None
  /\ Top.index = 0
  /\ Len(unknowns) >= 2
  /\ work >= 4

\* the local check declared: some clue at king-move distance at most 1 of
\* (r, c) is exceeded, or has no Unknown neighbour and a wrong Trap count
Rejected(g, p) ==
  \E q \in Adjacent(p, Length(g)) \cup {p} :
    /\ At(g, q) >= 0
    /\ \/ Traps(g, Adjacent(q, Length(g))) > At(g, q)
       \/ /\ Adjacent(q, Length(g)) \cap Open(g) = {}
          /\ Traps(g, Adjacent(q, Length(g))) # At(g, q)

\* the grid a state holds: the working copy, or the input before any copy
Current == IF candidate = None THEN Load(heap, grid) ELSE Load(heap, candidate)

\* C7: on every partially assigned input grid and every grid of the
\* backtracking search (after each assignment and each revert) and every cell
\* (r, c), is_partial_consistent returns False exactly when a clue within one
\* neighbour-step of (r, c) is exceeded or is fully assigned with a wrong
\* count, and then no labelling of the remaining Unknown cells is valid.
C7_LocalCheckSound ==
  pc \in {"main", "bt"} => \A g \in {Current} :
    /\ \A p \in InputCells : is_partial_consistent(g, p[1], p[2]) = ~Rejected(g, p)
    /\ (\E p \in InputCells : ~is_partial_consistent(g, p[1], p[2])) => Solutions(g) = {}

C7_Witness ==
  /\ AtFrame("check")
  /\ ~is_partial_consistent(Load(heap, candidate), CellOf(Top)[1], CellOf(Top)[2])
  /\ Open(Load(heap, candidate)) # {}
  /\ \E p \in InputCells : is_partial_consistent(Load(heap, candidate), p[1], p[2])

\* 2^n
RECURSIVE Pow2(_)
Pow2(n) == IF n = 0 THEN 1 ELSE 2 * Pow2(n - 1)

\* C8: every brute-force and backtracking call returns; brute force builds
\* at most 2^|U| candidates, the recursion of backtrack is never deeper than
\* |U| below the first call, and backtrack is called at most 2^(|U|+1) - 1
\* times (each label of each call starts at most one recursive call).
C8_Terminates ==
  /\ [](algo = "bruteforce" => work <= Pow2(Len(unknowns)))
  /\ [](algo = "backtracking" =>
          /\ Len(stack) <= Len(unknowns) + 1
          /\ work <= Pow2(Len(unknowns) + 1) - 1)
  /\ <>Returned

C8_Witness ==
  /\ Returned /\ solved = None
  /\ algo = "backtracking"
  /\ Len(unknowns) >= 2
  /\ work >= 3

\* C9: for N >= 1 brute force and backtracking return the same result: None
\* when no labelling is valid, else the valid labelling that comes first in
\* the order of the product (row-major Unknown cells, Trap before Gem).
C9_SameFirstSolution ==
  (Returned /\ algo \in {"bruteforce", "backtracking"} /\ N0 >= 1) =>
    IF Solutions(input) = {} THEN solved = None
    ELSE solved # None /\ Load(heap, solved) = Complete(input, FirstSolution(input))

C9_Witness ==
  /\ Succeeded /\ algo = "backtracking"
  /\ Cardinality(Solutions(input)) >= 2
  /\ \E p \in Open(input) : At(Load(heap, solved), p) = Gem
  /\ \E p \in Open(input) : At(Load(heap, solved), p) = Trap

\* the clue cells of the input with at least one Unknown neighbour
OpenClues == {p \in InputCells : At(input, p) >= 0 /\ Adjacent(p, N0) \cap Open(input) # {}}

\* C10: when backtrack is entered with index = len(unknowns), every clue that
\* had an Unknown neighbour in the input has exactly n Trap neighbours, so the
\* final full check fails only on a clue none of whose neighbours was Unknown.
C10_LeafOnlyClosedClues ==
  (AtFrame("entry") /\ Top.index = Len(unknowns)) =>
    LET g == Load(heap, candidate)
    IN  /\ \A p \in OpenClues : Traps(g, Adjacent(p, N0)) = At(g, p)
        /\ ~is_valid_assignment(g) =>
             \E p \in InputCells \ OpenClues :
               At(g, p) >= 0 /\ Traps(g, Adjacent(p, N0)) # At(g, p)

C10_Witness ==
  /\ AtFrame("entry") /\ Top.index = Len(unknowns)
  /\ OpenClues # {}
  /\ ~is_valid_assignment(Load(heap, candidate))
====
